---- MODULE Spec2Model ----
(***************************************************************************)
(* Model of src/src/base_risk_reward_startegy.py: the risk/reward (R:R)   *)
(* functions, the position sizer and the DataFrame filter.                 *)
(*                                                                         *)
(* Python values are records [kind, v, s].  A float is modelled in a       *)
(* scaled-down IEEE-754 binary format: Prec significand bits, gradual      *)
(* underflow with smallest positive value 2^-Frac, round-to-nearest-even,  *)
(* overflow to infinity, NaN.  A finite float is the integer v counting    *)
(* units of 2^-Frac.  An exception leaving a function is the value Raise.  *)
(***************************************************************************)
EXTENDS Integers, Sequences, FiniteSets, TLC

VARIABLES pc, idea, arg, ret, heap

vars == <<pc, idea, arg, ret, heap>>

-----------------------------------------------------------------------------
(* Bounds of the model *)

\* significand bits of the float format
Prec == 3
\* the smallest positive float is 2^-Frac
Frac == 5
\* the largest quantum is 2^EMax units: the largest finite float is (2^Prec - 1) * 2^EMax units
EMax == 6
\* prices, ratios and equities are the whole numbers up to MaxIn
MaxIn == 4
\* ATR values and multipliers are the whole numbers 1..MaxAtr
MaxAtr == 2
\* equities are the whole numbers -1..MaxEquity
MaxEquity == 7
\* a table holds at most MaxRows rows
MaxRows == 2

RECURSIVE Pow2(_)
Pow2(n) == IF n = 0 THEN 1 ELSE 2 * Pow2(n - 1)

Unit == Pow2(Frac)
TwoP == Pow2(Prec)
MaxFinite == (TwoP - 1) * Pow2(EMax)

-----------------------------------------------------------------------------
(* Python values *)

Num(k) == [kind |-> "num", v |-> k, s |-> ""]
PosInf == [kind |-> "inf", v |-> 1, s |-> ""]
NegInf == [kind |-> "inf", v |-> -1, s |-> ""]
NaN == [kind |-> "nan", v |-> 0, s |-> ""]
None == [kind |-> "none", v |-> 0, s |-> ""]
PyStr(t) == [kind |-> "str", v |-> 0, s |-> t]
PyBool(b) == [kind |-> "bool", v |-> IF b THEN 1 ELSE 0, s |-> ""]
\* an exception propagating out of the evaluation
Raise == [kind |-> "raise", v |-> 0, s |-> ""]

\* the float with the whole value n
I(n) == Num(n * Unit)
Zero == Num(0)
Long == PyStr("long")
Short == PyStr("short")

IsFloat(x) == x.kind \in {"num", "inf", "nan"}
IsNum(x) == x.kind = "num"

-----------------------------------------------------------------------------
(* Float arithmetic: the exact result n/d (in units), rounded *)

RECURSIVE Quantum(_)
\* the spacing of the floats around x units: 1 below 2^Prec, doubling per binade
Quantum(x) == IF x < TwoP THEN 1 ELSE 2 * Quantum(x \div 2)

\* n/d units (d > 0) rounded to the nearest float, ties to the even significand
Round(n, d) ==
  LET a == IF n < 0 THEN -n ELSE n
      q == Quantum(a \div d)
      dq == d * q
      m == a \div dq
      r == a - m * dq
      up == (2 * r > dq) \/ (2 * r = dq /\ m % 2 = 1)
      mag == (IF up THEN m + 1 ELSE m) * q
  IN  IF mag > MaxFinite
        THEN (IF n < 0 THEN NegInf ELSE PosInf)
        ELSE Num(IF n < 0 THEN -mag ELSE mag)

Sign(x) == IF x.v < 0 THEN -1 ELSE IF x.v > 0 THEN 1 ELSE 0
InfOf(sg) == IF sg < 0 THEN NegInf ELSE PosInf

FNeg(a) == IF a.kind \in {"num", "inf"} THEN [a EXCEPT !.v = -a.v] ELSE a

\* a + b; a non-float operand raises TypeError
FAdd(a, b) ==
  IF ~IsFloat(a) \/ ~IsFloat(b) THEN Raise
  ELSE IF a.kind = "nan" \/ b.kind = "nan" THEN NaN
  ELSE IF a.kind = "inf" /\ b.kind = "inf" THEN (IF a.v = b.v THEN a ELSE NaN)
  ELSE IF a.kind = "inf" THEN a
  ELSE IF b.kind = "inf" THEN b
  ELSE Round(a.v + b.v, 1)

\* a - b
FSub(a, b) == FAdd(a, FNeg(b))

\* a * b
FMul(a, b) ==
  IF ~IsFloat(a) \/ ~IsFloat(b) THEN Raise
  ELSE IF a.kind = "nan" \/ b.kind = "nan" THEN NaN
  ELSE IF a.kind = "inf" \/ b.kind = "inf"
    THEN (IF Sign(a) * Sign(b) = 0 THEN NaN ELSE InfOf(Sign(a) * Sign(b)))
  ELSE Round(a.v * b.v, Unit)

\* a / b; a zero divisor raises ZeroDivisionError
FDiv(a, b) ==
  IF ~IsFloat(a) \/ ~IsFloat(b) THEN Raise
  ELSE IF b.kind = "num" /\ b.v = 0 THEN Raise
  ELSE IF a.kind = "nan" \/ b.kind = "nan" THEN NaN
  ELSE IF a.kind = "inf" /\ b.kind = "inf" THEN NaN
  ELSE IF a.kind = "inf" THEN InfOf(Sign(a) * Sign(b))
  ELSE IF b.kind = "inf" THEN Zero
  ELSE IF b.v < 0 THEN Round(-(a.v * Unit), -b.v)
  ELSE Round(a.v * Unit, b.v)

\* the comparisons of two floats; every comparison with NaN is false
FLt(a, b) ==
  /\ a.kind # "nan" /\ b.kind # "nan"
  /\ IF a.kind = "inf" THEN a.v < 0 /\ b # NegInf
     ELSE IF b.kind = "inf" THEN b.v > 0
     ELSE a.v < b.v
FLe(a, b) == a.kind # "nan" /\ b.kind # "nan" /\ (a = b \/ FLt(a, b))
FGe(a, b) == FLe(b, a)
FGt(a, b) == FLt(b, a)

\* math.isfinite
isfinite(x) == x.kind = "num"

-----------------------------------------------------------------------------
(* TradeIdea and the R:R functions *)

resolve_stop(self) ==
  IF self.atr # None /\ self.atr_mult # None
    THEN IF self.direction = Long
           THEN FSub(self.entry, FMul(self.atr, self.atr_mult))
           ELSE FAdd(self.entry, FMul(self.atr, self.atr_mult))
    ELSE self.stop

\* risk_reward with the ratio clamped at zero
risk_reward_clamped(self) ==
  LET stop == resolve_stop(self)
      risk == IF self.direction = Long THEN FSub(self.entry, stop)
                                       ELSE FSub(stop, self.entry)
      reward == IF self.direction = Long THEN FSub(self.target, self.entry)
                                         ELSE FSub(self.entry, self.target)
  IN  IF stop = Raise THEN Raise
      ELSE IF self.target = None THEN None
      ELSE IF risk = Raise \/ reward = Raise THEN Raise
      ELSE IF FLe(risk, Zero) THEN None
      ELSE IF FLt(FDiv(reward, risk), Zero) THEN Zero
      ELSE FDiv(reward, risk)

\* risk_reward guarding risk < 0 instead of risk <= 0
risk_reward_strict_guard(self) ==
  LET stop == resolve_stop(self)
      risk == IF self.direction = Long THEN FSub(self.entry, stop)
                                       ELSE FSub(stop, self.entry)
      reward == IF self.direction = Long THEN FSub(self.target, self.entry)
                                         ELSE FSub(self.entry, self.target)
  IN  IF stop = Raise THEN Raise
      ELSE IF self.target = None THEN None
      ELSE IF risk = Raise \/ reward = Raise THEN Raise
      ELSE IF FLt(risk, Zero) THEN None
      ELSE FDiv(reward, risk)

risk_reward(self) ==
  LET stop == resolve_stop(self)
      risk == IF self.direction = Long THEN FSub(self.entry, stop)
                                       ELSE FSub(stop, self.entry)
      reward == IF self.direction = Long THEN FSub(self.target, self.entry)
                                         ELSE FSub(self.entry, self.target)
  IN  IF stop = Raise THEN Raise
      ELSE IF self.target = None THEN None
      ELSE IF risk = Raise \/ reward = Raise THEN Raise
      ELSE IF FLe(risk, Zero) THEN None
      ELSE FDiv(reward, risk)

\* target_for_rr reading the stop field instead of the resolved stop
target_for_rr_raw_stop(self, desired_rr) ==
  IF self.direction = Long
    THEN FAdd(self.entry, FMul(desired_rr, FSub(self.entry, self.stop)))
    ELSE FSub(self.entry, FMul(desired_rr, FSub(self.stop, self.entry)))

target_for_rr(self, desired_rr) ==
  LET stop == resolve_stop(self)
  IN  IF self.direction = Long
        THEN FAdd(self.entry, FMul(desired_rr, FSub(self.entry, stop)))
        ELSE FSub(self.entry, FMul(desired_rr, FSub(stop, self.entry)))

compute_rr(entry, stop, target, direction) ==
  LET risk == IF direction = Long THEN FSub(entry, stop) ELSE FSub(stop, entry)
      reward == IF direction = Long THEN FSub(target, entry) ELSE FSub(entry, target)
  IN  IF risk = Raise \/ reward = Raise THEN Raise
      ELSE IF FLe(risk, Zero) THEN None
      ELSE FDiv(reward, risk)

\* target_from_rr with the short branch adding the distance
target_from_rr_short_adds(entry, stop, desired_rr, direction) ==
  IF direction = Long
    THEN FAdd(entry, FMul(desired_rr, FSub(entry, stop)))
    ELSE FAdd(entry, FMul(desired_rr, FSub(stop, entry)))

target_from_rr(entry, stop, desired_rr, direction) ==
  IF direction = Long
    THEN FAdd(entry, FMul(desired_rr, FSub(entry, stop)))
    ELSE FSub(entry, FMul(desired_rr, FSub(stop, entry)))

-----------------------------------------------------------------------------
(* Inputs *)

Prices == {I(k) : k \in 0..MaxIn}
DesiredRRs == {I(k) : k \in -1..MaxIn}
Atrs == {None} \cup {I(k) : k \in 1..MaxAtr}
Directions == {Long, Short}

TradeIdeas ==
  [symbol : {PyStr("AAA")}, direction : Directions, entry : Prices, stop : Prices,
   target : Prices \cup {None}, atr : Atrs, atr_mult : Atrs]

-----------------------------------------------------------------------------
(* The R:R engine: one trade idea, one call on it; a target derived by     *)
(* target_from_rr may be fed back to compute_rr.                           *)

Init ==
  /\ pc = "start"
  /\ idea \in TradeIdeas
  /\ arg = None
  /\ ret = None
  /\ heap = <<>>

CallResolveStop ==
  /\ pc = "start"
  /\ ret' = resolve_stop(idea)
  /\ pc' = "resolve_stop"
  /\ UNCHANGED <<idea, arg, heap>>

CallRiskReward ==
  /\ pc = "start"
  /\ ret' = risk_reward(idea)
  /\ pc' = "risk_reward"
  /\ UNCHANGED <<idea, arg, heap>>

CallTargetForRR ==
  /\ pc = "start"
  /\ \E d \in DesiredRRs :
       /\ arg' = d
       /\ ret' = target_for_rr(idea, d)
  /\ pc' = "target_for_rr"
  /\ UNCHANGED <<idea, heap>>

CallComputeRR ==
  /\ pc = "start"
  /\ ret' = compute_rr(idea.entry, idea.stop, idea.target, idea.direction)
  /\ pc' = "compute_rr"
  /\ UNCHANGED <<idea, arg, heap>>

CallTargetFromRR ==
  /\ pc = "start"
  /\ \E d \in DesiredRRs :
       /\ arg' = d
       /\ ret' = target_from_rr(idea.entry, idea.stop, d, idea.direction)
  /\ pc' = "target_from_rr"
  /\ UNCHANGED <<idea, heap>>

\* compute_rr on the target that target_from_rr returned
CallComputeRROfTarget ==
  /\ pc = "target_from_rr"
  /\ ret' = compute_rr(idea.entry, idea.stop, ret, idea.direction)
  /\ pc' = "round_trip"
  /\ UNCHANGED <<idea, arg, heap>>

Next ==
  \/ CallResolveStop
  \/ CallRiskReward
  \/ CallTargetForRR
  \/ CallComputeRR
  \/ CallTargetFromRR
  \/ CallComputeRROfTarget

Spec == Init /\ [][Next]_vars

-----------------------------------------------------------------------------
(* Position sizing *)

\* the returned tuple (position_size, $risk_per_unit)
Pair(size, pur) == [kind |-> "tuple", v |-> 0, s |-> "", size |-> size, per_unit_risk |-> pur]

\* math.floor: ValueError on NaN, OverflowError on an infinity
math_floor(x) ==
  IF x.kind = "num" THEN Num((x.v \div Unit) * Unit) ELSE Raise

\* max(a, b) of two numbers: b only when b > a
py_max(a, b) == IF FGt(b, a) THEN b ELSE a

per_unit_risk(entry, stop, direction, contract_multiplier) ==
  IF direction = Long
    THEN FMul(FSub(entry, stop), contract_multiplier)
    ELSE FMul(FSub(stop, entry), contract_multiplier)

\* math.ceil in place of math.floor
math_ceil(x) ==
  IF x.kind = "num" THEN Num(-(((-x.v) \div Unit) * Unit)) ELSE Raise

\* position_size_by_risk rounding the size up, and without the min_size rule
position_size_by_risk_ceil(equity, risk_pct, entry, stop, direction, contract_multiplier, min_size) ==
  LET pur == per_unit_risk(entry, stop, direction, contract_multiplier)
      total_risk_allowed == FMul(equity, risk_pct)
      size == py_max(math_ceil(FDiv(total_risk_allowed, pur)), Zero)
  IN  IF pur = Raise THEN Raise
      ELSE IF FLe(pur, Zero) THEN Pair(Zero, Zero)
      ELSE IF math_ceil(FDiv(total_risk_allowed, pur)) = Raise THEN Raise
      ELSE Pair(size, pur)

\* position_size_by_risk returning the size for a sub-minimum position
position_size_by_risk_no_min(equity, risk_pct, entry, stop, direction, contract_multiplier, min_size) ==
  LET pur == per_unit_risk(entry, stop, direction, contract_multiplier)
      total_risk_allowed == FMul(equity, risk_pct)
      size == py_max(math_floor(FDiv(total_risk_allowed, pur)), Zero)
  IN  IF pur = Raise THEN Raise
      ELSE IF FLe(pur, Zero) THEN Pair(Zero, Zero)
      ELSE IF math_floor(FDiv(total_risk_allowed, pur)) = Raise THEN Raise
      ELSE Pair(size, pur)

position_size_by_risk(equity, risk_pct, entry, stop, direction, contract_multiplier, min_size) ==
  LET pur == per_unit_risk(entry, stop, direction, contract_multiplier)
      total_risk_allowed == FMul(equity, risk_pct)
      floored == math_floor(FDiv(total_risk_allowed, pur))
      size == py_max(floored, Zero)
  IN  IF pur = Raise THEN Raise
      ELSE IF FLe(pur, Zero) THEN Pair(Zero, Zero)
      ELSE IF floored = Raise THEN Raise
      ELSE IF ~IsFloat(min_size) THEN Raise
      ELSE IF FLt(Zero, size) /\ FLt(size, min_size) THEN Pair(Zero, pur)
      ELSE Pair(size, pur)

Half == Num(Unit \div 2)
Quarter == Num(Unit \div 4)
Equities == {I(k) : k \in -1..MaxEquity}
RiskPcts == {Half, I(1)}
Multipliers == {Quarter, Half, I(1), I(2)}
MinSizes == {I(1), I(2), I(MaxIn)}

SizingCalls ==
  [equity : Equities, risk_pct : RiskPcts, entry : Prices, stop : Prices,
   direction : Directions, contract_multiplier : Multipliers, min_size : MinSizes]

InitSize ==
  /\ pc = "start"
  /\ idea = None
  /\ arg \in SizingCalls
  /\ ret = None
  /\ heap = <<>>

CallPositionSize ==
  /\ pc = "start"
  /\ ret' = position_size_by_risk(arg.equity, arg.risk_pct, arg.entry, arg.stop,
                                  arg.direction, arg.contract_multiplier, arg.min_size)
  /\ pc' = "position_size_by_risk"
  /\ UNCHANGED <<idea, arg, heap>>

NextSize == CallPositionSize

SpecSize == InitSize /\ [][NextSize]_vars


-----------------------------------------------------------------------------
(* The DataFrame filter.  A table is [cols, rows]: the column names in      *)
(* order and the rows, each a function from the column names to values.    *)
(* heap maps an object to its table: "df" is the caller's DataFrame,        *)
(* "copy" the one df.copy() makes.                                          *)

Ref(id) == [kind |-> "ref", v |-> 0, s |-> id]

HasCol(t, c) == \E k \in 1..Len(t.cols) : t.cols[k] = c

\* row[col]: KeyError when the row has no such column
getitem(row, col) == IF col \in DOMAIN row THEN row[col] ELSE Raise

\* compute_rr(row[entry_col], row[stop_col], row[target_col], row[direction_col])
row_compute_rr(row) ==
  LET entry == getitem(row, "entry")
      stop == getitem(row, "stop")
      target == getitem(row, "target")
      direction == getitem(row, "direction")
  IN  IF Raise \in {entry, stop, target, direction} THEN Raise
      ELSE compute_rr(entry, stop, target, direction)

\* safe_rr without the try/except
safe_rr_no_catch(row) ==
  LET rr == row_compute_rr(row)
  IN  IF rr = Raise THEN Raise
      ELSE IF rr # None /\ isfinite(rr) THEN rr ELSE NaN

\* safe_rr without the math.isfinite test
safe_rr_no_isfinite(row) ==
  LET rr == row_compute_rr(row)
  IN  IF rr = Raise THEN NaN
      ELSE IF rr # None THEN rr ELSE NaN

safe_rr(row) ==
  LET rr == row_compute_rr(row)
  IN  IF rr = Raise THEN NaN
      ELSE IF rr # None /\ isfinite(rr) THEN rr ELSE NaN

\* df.copy() that hands back the caller's object
df_alias(h, id) == [heap |-> h, ref |-> id]

\* df.copy(): a new object with the same columns and rows
df_copy(h, id) ==
  [heap |-> [o \in DOMAIN h \cup {"copy"} |-> IF o = "copy" THEN h[id] ELSE h[o]],
   ref |-> "copy"]

\* df[col] = values: the column is replaced in place, or appended
setitem(h, id, col, values) ==
  LET t == h[id]
      rows == [i \in 1..Len(t.rows) |->
                 [c \in DOMAIN t.rows[i] \cup {col} |->
                    IF c = col THEN values[i] ELSE t.rows[i][c]]]
      cols == IF HasCol(t, col) THEN t.cols ELSE Append(t.cols, col)
  IN  [h EXCEPT ![id] = [cols |-> cols, rows |-> rows]]

\* df.apply(safe_rr, axis=1): one value per row; an exception leaves apply
df_apply(t) == [i \in 1..Len(t.rows) |-> safe_rr(t.rows[i])]

\* df["rr"] >= min_rr, elementwise
series_ge(values, min_rr) ==
  [i \in 1..Len(values) |-> PyBool(FGe(values[i], min_rr))]

\* the call's effect on the heap and what it returns
filter_trades_by_rr(h, df, min_rr) ==
  LET c == df_copy(h, df)
      rr == df_apply(c.heap[c.ref])
      h1 == setitem(c.heap, c.ref, "rr", rr)
      h2 == setitem(h1, c.ref, "pass_rr", series_ge(rr, min_rr))
  IN  IF \E i \in 1..Len(rr) : rr[i] = Raise
        THEN [heap |-> c.heap, ret |-> Raise]
        ELSE [heap |-> h2, ret |-> Ref(c.ref)]

RowDirections == {Long, Short, None}
RowEntries == {I(2)}
RowStops == {I(1), I(3)}
RowTargets == {I(MaxIn), PosInf, NaN, PyStr("n/a")}
MinRRs == {I(2), I(3)}

BaseCols == <<"symbol", "direction", "entry", "stop", "target">>

\* the documented columns; with a column rr, or pass_rr, already there;
\* without the direction column
Shapes ==
  {BaseCols, Append(BaseCols, "rr"), Append(BaseCols, "pass_rr"),
   <<"symbol", "entry", "stop", "target">>}

BaseRows ==
  {[symbol |-> PyStr("AAA"), direction |-> d, entry |-> e, stop |-> s, target |-> t] :
     d \in RowDirections, e \in RowEntries, s \in RowStops, t \in RowTargets}

\* the rows a table of these columns may hold
RowsFor(cols) ==
  IF cols = BaseCols THEN BaseRows
  ELSE {[c \in {cols[k] : k \in 1..Len(cols)} |->
           IF c = "rr" THEN I(1) ELSE IF c = "pass_rr" THEN PyBool(TRUE) ELSE r[c]] :
          r \in {x \in BaseRows : x.direction = Long}}

\* the caller's DataFrame, empty, and the call's min_rr
InitFilter ==
  /\ pc = "start"
  /\ idea = None
  /\ arg \in MinRRs
  /\ ret = None
  /\ heap \in {[o \in {"df"} |-> [cols |-> c, rows |-> <<>>]] : c \in Shapes}

\* the caller adds a row to its DataFrame
AddRow ==
  /\ pc = "start"
  /\ Len(heap["df"].rows) < MaxRows
  /\ \E r \in RowsFor(heap["df"].cols) :
       heap' = [heap EXCEPT !["df"].rows = Append(@, r)]
  /\ UNCHANGED <<pc, idea, arg, ret>>

CallFilter ==
  /\ pc = "start"
  /\ LET r == filter_trades_by_rr(heap, "df", arg)
     IN  /\ heap' = r.heap
         /\ ret' = r.ret
  /\ pc' = "filter_trades_by_rr"
  /\ UNCHANGED <<idea, arg>>

NextFilter == AddRow \/ CallFilter

SpecFilter == InitFilter /\ [][NextFilter]_vars


-----------------------------------------------------------------------------
(* Properties of the R:R engine *)

\* the result of an operation is exact: no rounding, no overflow
ExactAdd(a, b) == IsNum(a) /\ IsNum(b) /\ IsNum(FAdd(a, b)) /\ FAdd(a, b).v = a.v + b.v
ExactSub(a, b) == ExactAdd(a, FNeg(b))
ExactMul(a, b) ==
  IsNum(a) /\ IsNum(b) /\ IsNum(FMul(a, b)) /\ FMul(a, b).v * Unit = a.v * b.v

\* entry > stop for long, stop > entry for short
PositiveRisk(entry, stop, direction) ==
  IF direction = Long THEN FGt(entry, stop) ELSE FGt(stop, entry)

\* the risk distance |entry - stop| of the direction
RiskOf(entry, stop, direction) ==
  IF direction = Long THEN FSub(entry, stop) ELSE FSub(stop, entry)

\* entry - stop, desired_rr * risk and entry +/- that product are all exact
NoRounding(entry, stop, desired_rr, direction) ==
  LET risk == RiskOf(entry, stop, direction)
  IN  /\ IF direction = Long THEN ExactSub(entry, stop) ELSE ExactSub(stop, entry)
      /\ ExactMul(desired_rr, risk)
      /\ IF direction = Long THEN ExactAdd(entry, FMul(desired_rr, risk))
                             ELSE ExactSub(entry, FMul(desired_rr, risk))

\* C1 as stated: with positive risk, compute_rr of the target that
\* target_from_rr returned is defined and equals desired_rr.
C1_RoundTripEquals ==
  (pc = "round_trip" /\ PositiveRisk(idea.entry, idea.stop, idea.direction))
    => (ret # None /\ ret = arg)

\* C1 amended: with positive risk, compute_rr of the target that target_from_rr
\* returned is defined (a float, not None and no exception), and it equals
\* desired_rr whenever entry - stop, desired_rr * risk and entry +/- that
\* product are computed without rounding.
C1_RoundTripExact ==
  (pc = "round_trip" /\ PositiveRisk(idea.entry, idea.stop, idea.direction))
    => /\ IsFloat(ret)
       /\ NoRounding(idea.entry, idea.stop, arg, idea.direction) => ret = arg

C1_Witness ==
  /\ pc = "round_trip"
  /\ idea.direction = Short
  /\ PositiveRisk(idea.entry, idea.stop, idea.direction)
  /\ NoRounding(idea.entry, idea.stop, arg, idea.direction)
  /\ arg = I(2)
  /\ ret = I(2)

\* the resolved stop as the specification states it
ResolvedStop(i) ==
  IF i.atr # None /\ i.atr_mult # None
    THEN IF i.direction = Long THEN FSub(i.entry, FMul(i.atr, i.atr_mult))
                               ELSE FAdd(i.entry, FMul(i.atr, i.atr_mult))
    ELSE i.stop

RewardOf(entry, target, direction) ==
  IF direction = Long THEN FSub(target, entry) ELSE FSub(entry, target)

\* the target lies against the direction of the trade
WrongSide(i) ==
  IF i.direction = Long THEN FLt(i.target, i.entry) ELSE FGt(i.target, i.entry)

\* C3: risk_reward returns None exactly when the target is absent or the risk
\* (entry - resolved stop for long, resolved stop - entry for short) is <= 0;
\* otherwise it returns reward / risk, and a target on the wrong side of entry
\* gives a negative ratio: not None, not clamped to zero.
C3_RiskRewardUndefinedIff ==
  pc = "risk_reward" =>
    LET risk == RiskOf(idea.entry, ResolvedStop(idea), idea.direction)
        reward == RewardOf(idea.entry, idea.target, idea.direction)
    IN  /\ ret = None <=> (idea.target = None \/ FLe(risk, Zero))
        /\ ret # None => ret = FDiv(reward, risk)
        /\ (idea.target # None /\ FGt(risk, Zero) /\ WrongSide(idea))
             => (IsFloat(ret) /\ FLt(ret, Zero))

C3_Witness ==
  /\ pc = "risk_reward"
  /\ idea.target # None
  /\ WrongSide(idea)
  /\ FGt(RiskOf(idea.entry, ResolvedStop(idea), idea.direction), Zero)
  /\ FLt(ret, Zero)

\* C4 as stated: risk_reward returns None whenever entry equals the stop
\* field, whatever the other fields (atr and atr_mult included) are.
C4_EntryEqualsStopField ==
  (pc = "risk_reward" /\ idea.entry = idea.stop) => ret = None

\* C4 amended: risk_reward returns None whenever entry equals the stop field
\* and atr or atr_mult is absent (so that the stop field is the resolved
\* stop), regardless of direction and target.
C4_EntryEqualsResolvedStop ==
  (pc = "risk_reward" /\ idea.entry = idea.stop
     /\ (idea.atr = None \/ idea.atr_mult = None))
    => ret = None

C4_Witness ==
  /\ pc = "risk_reward"
  /\ idea.entry = idea.stop
  /\ idea.atr = None
  /\ idea.atr_mult # None
  /\ idea.target # None
  /\ ret = None

\* C5: with a present target risk_reward equals compute_rr at the resolved
\* stop, and target_for_rr equals target_from_rr at the resolved stop.
C5_BoundEqualsFree ==
  /\ (pc = "risk_reward" /\ idea.target # None)
       => ret = compute_rr(idea.entry, ResolvedStop(idea), idea.target, idea.direction)
  /\ pc = "target_for_rr"
       => ret = target_from_rr(idea.entry, ResolvedStop(idea), arg, idea.direction)

C5_Witness ==
  /\ pc = "target_for_rr"
  /\ idea.atr # None
  /\ idea.atr_mult # None
  /\ ResolvedStop(idea) # idea.stop
  /\ arg = I(2)
  /\ ret = target_from_rr(idea.entry, ResolvedStop(idea), arg, idea.direction)
  /\ ret # target_from_rr(idea.entry, idea.stop, arg, idea.direction)

-----------------------------------------------------------------------------
(* Properties of the position sizer *)

Returned == pc = "position_size_by_risk" /\ ret # Raise

\* a whole number of units, not negative
WholeNonNegative(x) == IsNum(x) /\ x.v >= 0 /\ x.v % Unit = 0

\* size * per_unit_risk <= equity * risk_pct, in exact arithmetic
LossWithinAllowed ==
  IF ret.size = Zero
    THEN 0 <= arg.equity.v * arg.risk_pct.v
    ELSE IsNum(ret.per_unit_risk)
           /\ ret.size.v * ret.per_unit_risk.v <= arg.equity.v * arg.risk_pct.v

\* C2 as stated: every returned (size, per_unit_risk) has a whole,
\* non-negative size with size * per_unit_risk <= equity * risk_pct.
C2_LossNeverExceedsAllowed ==
  Returned => (WholeNonNegative(ret.size) /\ LossWithinAllowed)

\* neither equity * risk_pct nor total_risk_allowed / per_unit_risk is rounded
\* upward by the float arithmetic
NotRoundedUp ==
  LET pur == per_unit_risk(arg.entry, arg.stop, arg.direction, arg.contract_multiplier)
      total == FMul(arg.equity, arg.risk_pct)
      q == FDiv(total, pur)
  IN  /\ IsNum(total)
      /\ total.v * Unit <= arg.equity.v * arg.risk_pct.v
      /\ FLe(pur, Zero) \/ (IsNum(q) /\ IsNum(pur) /\ q.v * pur.v <= total.v * Unit)

\* C2 amended: every returned size is whole and non-negative, and
\* size * per_unit_risk <= equity * risk_pct whenever equity * risk_pct is
\* not negative and neither that product nor the quotient
\* total_risk_allowed / per_unit_risk is rounded upward.
C2_LossWithinAllowedUnlessRounded ==
  Returned =>
    /\ WholeNonNegative(ret.size)
    /\ (arg.equity.v * arg.risk_pct.v >= 0 /\ NotRoundedUp) => LossWithinAllowed

C2_Witness ==
  /\ Returned
  /\ NotRoundedUp
  /\ arg.equity = I(3)
  /\ arg.risk_pct = I(1)
  /\ ret = Pair(I(1), I(2))

\* C6: (0, 0) whenever the per-unit risk is <= 0; (0, per_unit_risk) whenever
\* floor(equity * risk_pct / per_unit_risk) is positive but below min_size;
\* a returned size is 0 or >= min_size.
C6_ZeroSizeResults ==
  pc = "position_size_by_risk" =>
    LET pur == per_unit_risk(arg.entry, arg.stop, arg.direction, arg.contract_multiplier)
        floored == math_floor(FDiv(FMul(arg.equity, arg.risk_pct), pur))
    IN  /\ FLe(pur, Zero) => ret = Pair(Zero, Zero)
        /\ arg.stop = arg.entry => ret = Pair(Zero, Zero)
        /\ (FGt(pur, Zero) /\ floored # Raise /\ FGt(floored, Zero)
              /\ FLt(floored, arg.min_size))
             => (ret = Pair(Zero, pur) /\ pur # Zero)
        /\ ret # Raise => (ret.size = Zero \/ FGe(ret.size, arg.min_size))

C6_Witness ==
  /\ pc = "position_size_by_risk"
  /\ arg.min_size = I(2)
  /\ math_floor(FDiv(FMul(arg.equity, arg.risk_pct),
                     per_unit_risk(arg.entry, arg.stop, arg.direction,
                                   arg.contract_multiplier))) = I(1)
  /\ ret = Pair(Zero, I(2))

-----------------------------------------------------------------------------
(* Properties of the DataFrame filter *)

FilterDone == pc = "filter_trades_by_rr"
True == PyBool(TRUE)
False == PyBool(FALSE)

\* the table the call was given, and the one it returned
Given == heap["df"]
Result == heap[ret.s]

\* t without its i-th row
WithoutRow(t, i) ==
  [cols |-> t.cols,
   rows |-> [k \in 1..(Len(t.rows) - 1) |-> IF k < i THEN t.rows[k] ELSE t.rows[k + 1]]]

\* the table filter_trades_by_rr returns for t alone
ResultFor(t, min_rr) ==
  LET r == filter_trades_by_rr([o \in {"df"} |-> t], "df", min_rr)
  IN  r.heap[r.ret.s]

\* C7: a row whose evaluation raises gets rr = NaN and pass_rr = False, the
\* call does not raise, and every other row has the rr and pass_rr it has in
\* the table without the faulty row.
C7_RowFaultsIsolated ==
  FilterDone =>
    /\ ret # Raise
    /\ \A i \in 1..Len(Given.rows) :
         row_compute_rr(Given.rows[i]) = Raise =>
           /\ Result.rows[i]["rr"] = NaN
           /\ Result.rows[i]["pass_rr"] = False
           /\ LET rest == ResultFor(WithoutRow(Given, i), arg)
              IN  \A k \in 1..Len(rest.rows) :
                    LET j == IF k < i THEN k ELSE k + 1
                    IN  /\ rest.rows[k]["rr"] = Result.rows[j]["rr"]
                        /\ rest.rows[k]["pass_rr"] = Result.rows[j]["pass_rr"]

C7_Witness ==
  /\ FilterDone
  /\ ret # Raise
  /\ Len(Given.rows) = 2
  /\ ~IsFloat(Given.rows[1]["target"])
  /\ Result.rows[1]["rr"] = NaN
  /\ Result.rows[1]["pass_rr"] = False
  /\ Result.rows[2]["rr"] = I(2)
  /\ Result.rows[2]["pass_rr"] = True

\* C8: a row whose direction value is neither "long" nor "short" gets
\* rr = NaN and pass_rr = False.
C8_MissingDirectionIsFault ==
  (FilterDone /\ ret # Raise) =>
    \A i \in 1..Len(Given.rows) :
      ("direction" \in DOMAIN Given.rows[i]
         /\ Given.rows[i]["direction"] \notin {Long, Short})
        => (Result.rows[i]["rr"] = NaN /\ Result.rows[i]["pass_rr"] = False)

\* C9: rr is NaN exactly when compute_rr of the row is None, non-finite or
\* raised, and is compute_rr of the row otherwise; pass_rr is True exactly
\* when rr is a number >= min_rr; a passing row has positive risk.
C9_RrAndPassColumns ==
  FilterDone =>
    /\ ret # Raise
    /\ \A i \in 1..Len(Given.rows) :
         LET row == Given.rows[i]
             r == row_compute_rr(row)
             rr == Result.rows[i]["rr"]
             pass == Result.rows[i]["pass_rr"]
         IN  /\ rr = NaN <=> (r = None \/ r = Raise \/ ~isfinite(r))
             /\ rr # NaN => rr = r
             /\ pass \in {True, False}
             /\ pass = True <=> (IsNum(rr) /\ FGe(rr, arg))
             /\ pass = True =>
                  /\ "direction" \in DOMAIN row
                  /\ FGt(RiskOf(row["entry"], row["stop"], row["direction"]), Zero)

C9_Witness ==
  /\ FilterDone
  /\ ret # Raise
  /\ Len(Given.rows) = 2
  /\ row_compute_rr(Given.rows[1]) = PosInf
  /\ Result.rows[1]["rr"] = NaN
  /\ Result.rows[1]["pass_rr"] = False
  /\ row_compute_rr(Given.rows[2]) = None
  /\ Result.rows[2]["rr"] = NaN
  /\ arg = I(2)

ColSet(t) == {t.cols[k] : k \in 1..Len(t.cols)}

\* C10 as stated: the call leaves its input as it was, and returns the same
\* rows in the same order, every input column unchanged, plus exactly the two
\* columns rr and pass_rr, for any input table.
C10_InputPlusTwoColumns ==
  [][ pc' = "filter_trades_by_rr" =>
        /\ heap'["df"] = heap["df"]
        /\ ret' # Raise
        /\ LET in == heap["df"]
               out == heap'[ret'.s]
           IN  /\ Len(out.rows) = Len(in.rows)
               /\ \A i \in 1..Len(in.rows) : \A c \in ColSet(in) :
                    out.rows[i][c] = in.rows[i][c]
               /\ ColSet(out) = ColSet(in) \cup {"rr", "pass_rr"}
               /\ Len(out.cols) = Len(in.cols) + 2 ]_vars

\* C10 amended: the call leaves its input as it was, and returns the same
\* rows in the same order with every input column other than rr and pass_rr
\* unchanged; the returned columns are the input's columns in their order,
\* followed by those of rr and pass_rr that the input does not have (both,
\* for an input with neither); a column of the input that is already named
\* rr or pass_rr keeps its place and holds the computed values.
C10_InputUntouchedColumnsAdded ==
  [][ pc' = "filter_trades_by_rr" =>
        /\ heap'["df"] = heap["df"]
        /\ ret' # Raise
        /\ LET in == heap["df"]
               out == heap'[ret'.s]
               added == SelectSeq(<<"rr", "pass_rr">>, LAMBDA c : c \notin ColSet(in))
           IN  /\ Len(out.rows) = Len(in.rows)
               /\ \A i \in 1..Len(in.rows) : \A c \in ColSet(in) \ {"rr", "pass_rr"} :
                    out.rows[i][c] = in.rows[i][c]
               /\ out.cols = in.cols \o added
               /\ \A i \in 1..Len(out.rows) :
                    /\ DOMAIN out.rows[i] = ColSet(out)
                    /\ out.rows[i]["rr"] = safe_rr(in.rows[i])
                    /\ out.rows[i]["pass_rr"] = PyBool(FGe(safe_rr(in.rows[i]), arg)) ]_vars

C10_Witness ==
  /\ FilterDone
  /\ ret = Ref("copy")
  /\ Len(Given.rows) = 2
  /\ Given.cols = BaseCols
  /\ Result.cols = BaseCols \o <<"rr", "pass_rr">>
  /\ Result.rows[1]["symbol"] = Given.rows[1]["symbol"]
  /\ Result.rows[2]["target"] = Given.rows[2]["target"]
  /\ Given.rows[1] # Given.rows[2]

====
